---- MODULE Spec2Model ----
(***************************************************************************)
(* State-machine model of zigpy-znp:                                       *)
(*   - ControllerApplication.startup / form_network / request              *)
(*     (src/zigpy_znp/zigbee/application.py)                               *)
(*   - restore_network (src/zigpy_znp/tools/network_restore.py)            *)
(* The radio API used by the application (command, nvram_write,            *)
(* wait_for_response and the dispatch of incoming frames) is not part of   *)
(* the sources; it is modelled from section 4.2 of the specification.      *)
(*                                                                         *)
(* A coroutine runs uninterrupted from one await to the next. Incoming     *)
(* frames are dispatched while it is suspended: after its request went     *)
(* out, and between the response resolving the request and the coroutine   *)
(* resuming.                                                               *)
(***************************************************************************)
EXTENDS Integers, Sequences, FiniteSets, TLC

VARIABLES
    \* ---- lifecycle task (startup / form_network) ----
    op,        \* the operation the caller invoked: "none", "startup", "form_network"
    fn,        \* the function whose body is executing
    step,      \* index of the current statement in FormSteps (0 outside form_network)
    phase,     \* position inside the current await
    args,      \* arguments and random draws of the call
    rsp,       \* the last synchronous response handed to the coroutine
    outcome,   \* how the invoked operation ended
    log,       \* requests issued, responses received and callbacks observed, in order
    nInd,      \* number of StateChangeInd frames the radio has emitted
    indSeen,   \* DeviceState values of the StateChangeInd frames dispatched so far
    \* ---- request() tasks, one entry per concurrent call ----
    rpc,       \* position of each call in request()
    rargs,     \* arguments of each call
    rrsp,      \* the response each call's last await returned
    rhist,     \* per call: what it sent, received and waited for, in order
    rresult,   \* how each call ended
    rmissed,   \* per call: the first confirmation for it that was dropped
    nConf,     \* number of DataConfirm frames the radio has emitted
    \* ---- restore_network ----
    rsPc,      \* position of restore_network: "idle", "pending", "resolved", "end"
    rsStep,    \* index of the awaited step in RestoreSteps (0 outside them)
    rsArgs,    \* backup document, counter_increment and the radio's firmware version
    rsNib,     \* the NIB record read back from the radio
    rsLog,     \* session and store operations issued, in order
    rsResult,  \* how restore_network ended
    \* ---- mrequest / broadcast / force_remove ----
    unsupported, \* the last such call and how it ended
    \* ---- on_af_message ----
    deviceTable, \* the Device records, by nwk address
    events,    \* what the handler raised, looked up, recorded and forwarded, in order
    handled,   \* the frames handled so far and how each call of the handler ended
    \* ---- commands/__init__.py ----
    ALL_COMMANDS,   \* the command definitions being registered, in order
    COMMANDS_BY_ID, \* the registry: header -> schema
    regPos,         \* number of command definitions registered so far
    regPc           \* "idle", "building", "done"

lifeVars == <<op, fn, step, phase, args, rsp, outcome, log, nInd, indSeen>>
reqVars == <<rpc, rargs, rrsp, rhist, rresult, rmissed, nConf>>

restVars == <<rsPc, rsStep, rsArgs, rsNib, rsLog, rsResult>>
unsVars == <<unsupported>>
msgVars == <<deviceTable, events, handled>>
regVars == <<ALL_COMMANDS, COMMANDS_BY_ID, regPos, regPc>>

vars == <<lifeVars, reqVars, restVars, unsVars, msgVars, regVars>>

\* what each part of the program leaves alone
notLife == <<reqVars, restVars, unsVars, msgVars, regVars>>
notReq == <<lifeVars, restVars, unsVars, msgVars, regVars>>
notRest == <<lifeVars, reqVars, unsVars, msgVars, regVars>>
notUns == <<lifeVars, reqVars, restVars, msgVars, regVars>>
notMsg == <<lifeVars, reqVars, restVars, unsVars, regVars>>
notReg == <<lifeVars, reqVars, restVars, unsVars, msgVars>>

----------------------------------------------------------------------------
\* Bounds of the model

\* StateChangeInd frames the radio may emit in one run
MaxInd == 2

\* DataConfirm frames the radio may emit in one run
MaxConfirms == 2

\* AF.IncomingMsg frames the radio may deliver in one run
MaxMessages == 2

\* command definitions in one command list
MaxCommands == 3

----------------------------------------------------------------------------
\* Values

\* Optional values: None is the empty sequence, Some(x) a one-element sequence
None == <<>>
Some(x) == <<x>>

DeviceStates == {"InitializedNotStarted", "StartingAsCoordinator", "StartedAsCoordinator"}
StartupStates == {"RestoredNetworkState", "NewNetworkState", "NotStarted"}
Statuses == {"Success", "NwkNoRoute", "Failure"}

FormChannels == {11, 15}
PanIds == {None, Some(4660)}
ExtPanIds == {None, Some("epid:configured")}
RandomKeys == {"key:A", "key:B"}
RandomExtPanIds == {"epid:random"}

\* t.Channels.from_channels: the bit mask with one bit per listed channel
RECURSIVE from_channels(_)
from_channels(chs) ==
    IF chs = {} THEN 0
    ELSE LET c == CHOOSE x \in chs : TRUE
         IN  2^c + from_channels(chs \ {c})

NO_CHANNELS == from_channels({})

----------------------------------------------------------------------------
\* ControllerApplication.form_network: the awaited statements, in program order

NvWrite(id, value) == [api |-> "nvram_write", name |-> id, arg |-> value]
Command(name, value) == [api |-> "command", name |-> name, arg |-> value]
WaitFor(name, value) == [api |-> "wait_for_response", name |-> name, arg |-> value]

\* pan_id = t.PanId(0xFFFF if pan_id is None else pan_id)
PanIdOrWildcard(pan_id) == IF pan_id = None THEN 65535 ELSE pan_id[1]

\* extended_pan_id = ExtendedPanId(os.urandom(8) if extended_pan_id is None else ...)
ExtPanIdOrRandom(extended_pan_id, random) ==
    IF extended_pan_id = None THEN random ELSE extended_pan_id[1]

\* form_network with the soft reset issued after all the configuration writes
FormSteps_ResetAfterWrites(a) ==
    LET channel_mask == from_channels({a.channel})
    IN  << NvWrite("STARTUP_OPTION", "ClearState"),
           NvWrite("LOGICAL_TYPE", "Coordinator"),
           NvWrite("PRECFGKEY", a.network_key),
           NvWrite("PRECFGKEYS_ENABLE", TRUE),
           NvWrite("CHANLIST", channel_mask),
           NvWrite("ZDO_DIRECT_CB", TRUE),
           NvWrite("PANID", PanIdOrWildcard(a.pan_id)),
           NvWrite("EXTENDED_PAN_ID", ExtPanIdOrRandom(a.extended_pan_id, a.random_epid)),
           Command("SYS.ResetReq", "Soft"),
           Command("APP_CNF.BDBSetChannel", [IsPrimary |-> TRUE, Channel |-> channel_mask]),
           Command("APP_CNF.BDBSetChannel", [IsPrimary |-> FALSE, Channel |-> NO_CHANNELS]),
           Command("APP_CNF.BDBStartCommissioning", "NetworkFormation"),
           WaitFor("ZDO.StateChangeInd", "StartedAsCoordinator"),
           Command("APP_CNF.BDBStartCommissioning", "NetworkSteering") >>

\* form_network that starts steering without awaiting the state change
FormSteps_NoWait(a) ==
    LET channel_mask == from_channels({a.channel})
    IN  << NvWrite("STARTUP_OPTION", "ClearState"),
           NvWrite("LOGICAL_TYPE", "Coordinator"),
           Command("SYS.ResetReq", "Soft"),
           NvWrite("PRECFGKEY", a.network_key),
           NvWrite("PRECFGKEYS_ENABLE", TRUE),
           NvWrite("CHANLIST", channel_mask),
           NvWrite("ZDO_DIRECT_CB", TRUE),
           NvWrite("PANID", PanIdOrWildcard(a.pan_id)),
           NvWrite("EXTENDED_PAN_ID", ExtPanIdOrRandom(a.extended_pan_id, a.random_epid)),
           Command("APP_CNF.BDBSetChannel", [IsPrimary |-> TRUE, Channel |-> channel_mask]),
           Command("APP_CNF.BDBSetChannel", [IsPrimary |-> FALSE, Channel |-> NO_CHANNELS]),
           Command("APP_CNF.BDBStartCommissioning", "NetworkFormation"),
           Command("APP_CNF.BDBStartCommissioning", "NetworkSteering") >>

FormSteps(a) ==
    LET channel_mask == from_channels({a.channel})
    IN  << NvWrite("STARTUP_OPTION", "ClearState"),
           NvWrite("LOGICAL_TYPE", "Coordinator"),
           Command("SYS.ResetReq", "Soft"),
           NvWrite("PRECFGKEY", a.network_key),
           NvWrite("PRECFGKEYS_ENABLE", TRUE),
           NvWrite("CHANLIST", channel_mask),
           NvWrite("ZDO_DIRECT_CB", TRUE),
           NvWrite("PANID", PanIdOrWildcard(a.pan_id)),
           NvWrite("EXTENDED_PAN_ID", ExtPanIdOrRandom(a.extended_pan_id, a.random_epid)),
           Command("APP_CNF.BDBSetChannel", [IsPrimary |-> TRUE, Channel |-> channel_mask]),
           Command("APP_CNF.BDBSetChannel", [IsPrimary |-> FALSE, Channel |-> NO_CHANNELS]),
           Command("APP_CNF.BDBStartCommissioning", "NetworkFormation"),
           WaitFor("ZDO.StateChangeInd", "StartedAsCoordinator"),
           Command("APP_CNF.BDBStartCommissioning", "NetworkSteering") >>

\* ControllerApplication.startup: the start request
StartupRequest == Command("ZDO.StartupFromApp", [StartDelay |-> 100])

\* a startup that finds the radio unconfigured
should_form_Unconfigured == <<TRUE>>

\* should_form = [False]; any(should_form)
should_form == <<FALSE>>
any(flags) == \E i \in 1..Len(flags) : flags[i]

\* the start check comparing against the wrong state
StartFailed_WrongState(state) == state = "NewNetworkState"

\* if startup_rsp.State == StartupState.NotStarted: raise RuntimeError(...)
StartFailed(state) == state = "NotStarted"

\* The statement the lifecycle task is at
CurStmt == IF fn = "form_network" THEN FormSteps(args)[step] ELSE StartupRequest

\* What the radio may answer to a request
ResponsesFor(stmt) ==
    IF stmt.name = "ZDO.StartupFromApp" THEN StartupStates ELSE {"Success", "Failure"}

ApiErrors == {"Timeout", "LinkClosed"}

NoArgs == [auto_form |-> FALSE, channel |-> 15, pan_id |-> None,
           extended_pan_id |-> None, network_key |-> "key:A",
           random_epid |-> "epid:random"]

\* A coroutine runs without interruption from one await to the next: resuming
\* it, running the code up to the next API call and issuing that call (sending
\* the request and registering the PendingRequest, or registering the one-shot
\* callback wait) are one step.
Begin(stmt) ==
    IF stmt.api = "wait_for_response"
    THEN /\ phase' = "waiting"
         /\ UNCHANGED log
    ELSE /\ phase' = "pending"
         /\ log' = Append(log, [ev |-> "req", api |-> stmt.api, name |-> stmt.name,
                                arg |-> stmt.arg])

\* startup(auto_form): lines 67-74, up to the first await
startup_call(auto_form, key, random) ==
    /\ op = "none"
    /\ op' = "startup"
    /\ args' = [NoArgs EXCEPT !.auto_form = auto_form, !.network_key = key,
                              !.random_epid = random]
    /\ IF auto_form /\ any(should_form)
       THEN /\ fn' = "form_network"
            /\ step' = 1
            /\ Begin(FormSteps(args')[1])
       ELSE /\ fn' = "startup"
            /\ step' = 0
            /\ Begin(StartupRequest)
    /\ UNCHANGED <<rsp, outcome, nInd, indSeen>>
    /\ UNCHANGED notLife

\* form_network(channel, pan_id, extended_pan_id) called directly: up to its
\* first await
form_network_call(channel, pan_id, extended_pan_id, key, random) ==
    /\ op = "none"
    /\ op' = "form_network"
    /\ args' = [auto_form |-> FALSE, channel |-> channel, pan_id |-> pan_id,
                extended_pan_id |-> extended_pan_id, network_key |-> key,
                random_epid |-> random]
    /\ fn' = "form_network"
    /\ step' = 1
    /\ Begin(FormSteps(args')[1])
    /\ UNCHANGED <<rsp, outcome, nInd, indSeen>>
    /\ UNCHANGED notLife

\* dispatch_incoming of the synchronous response: resolves the PendingRequest
radio_respond(r) ==
    /\ phase = "pending"
    /\ r \in ResponsesFor(CurStmt)
    /\ rsp' = r
    /\ log' = Append(log, [ev |-> "rsp", api |-> CurStmt.api, name |-> CurStmt.name,
                           arg |-> CurStmt.arg])
    /\ phase' = "resolved"
    /\ UNCHANGED <<op, fn, step, args, outcome, nInd, indSeen>>
    /\ UNCHANGED notLife

\* dispatch_incoming of a StateChangeInd callback: resolves a matching one-shot
\* wait; a frame matching nothing is dropped
radio_state_change(s) ==
    /\ nInd < MaxInd
    /\ nInd' = nInd + 1
    /\ indSeen' = indSeen \cup {s}
    /\ IF phase = "waiting" /\ CurStmt.name = "ZDO.StateChangeInd" /\ CurStmt.arg = s
       THEN /\ phase' = "resolved"
            /\ rsp' = s
            /\ log' = Append(log, [ev |-> "ind", api |-> "wait_for_response",
                                   name |-> "ZDO.StateChangeInd", arg |-> s])
       ELSE UNCHANGED <<phase, rsp, log>>
    /\ UNCHANGED <<op, fn, step, args, outcome>>
    /\ UNCHANGED notLife

\* a pending request or wait fails: timeout or link closure raises in the caller
api_fail(e) ==
    /\ phase \in {"pending", "waiting"}
    /\ outcome' = e
    /\ phase' = "end"
    /\ UNCHANGED <<op, fn, step, args, rsp, log, nInd, indSeen>>
    /\ UNCHANGED notLife

\* startup resumes after the start request: lines 76-81
startup_resume ==
    /\ phase = "resolved"
    /\ fn = "startup"
    /\ outcome' = IF StartFailed(rsp) THEN "RuntimeError: Network failed to start"
                  ELSE "returned"
    /\ phase' = "end"
    /\ UNCHANGED <<op, fn, step, args, rsp, log, nInd, indSeen>>
    /\ UNCHANGED notLife

\* form_network resumes after an await: the next statement is issued, or
\* form_network returns (to startup, which then issues the start request)
form_network_resume ==
    /\ phase = "resolved"
    /\ fn = "form_network"
    /\ IF step < Len(FormSteps(args))
       THEN /\ step' = step + 1
            /\ Begin(FormSteps(args)[step + 1])
            /\ UNCHANGED <<fn, outcome>>
       ELSE IF op = "startup"
            THEN /\ fn' = "startup"
                 /\ step' = 0
                 /\ Begin(StartupRequest)
                 /\ UNCHANGED outcome
            ELSE /\ outcome' = "returned"
                 /\ phase' = "end"
                 /\ UNCHANGED <<fn, step, log>>
    /\ UNCHANGED <<op, args, rsp, nInd, indSeen>>
    /\ UNCHANGED notLife



----------------------------------------------------------------------------
\* ControllerApplication.request: unicast send with route recovery

Calls == {1, 2}
Devices == {[nwk |-> 48879, ieee |-> "00:11:22:33:44:55:66:77"]}
Endpoints == {1, 2}
Sequences == {7, 8}
\* the (dst_ep, sequence) pairs calls are made with
Targets == {<<1, 7>>, <<1, 8>>, <<2, 7>>}
ConfirmStatuses == {"Success", "NwkNoRoute"}

NoCall == [device |-> [nwk |-> 0, ieee |-> "none"], dst_ep |-> 0, sequence |-> 0,
           use_ieee |-> FALSE]
NoFrame == [name |-> "none"]
NoResult == [kind |-> "none"]

\* data_request = c.AFCommands.DataRequest.Req(...)
DataRequest(a) ==
    [name |-> "AF.DataRequest", DstAddr |-> a.device.nwk, DstEndpoint |-> a.dst_ep,
     TSN |-> a.sequence, Radius |-> 30]

\* c.ZDOCommands.ExtRouteDisc.Req(Dst=device.ieee, Options=Force, Radius=2 * 0x0F)
ExtRouteDisc(a) ==
    [name |-> "ZDO.ExtRouteDisc", Dst |-> a.device.ieee, Options |-> "Force",
     Radius |-> 2 * 15]

\* a confirmation matcher that leaves the TSN out
ConfirmMatcher_EndpointOnly(a) == [name |-> "AF.DataConfirm", Endpoint |-> a.dst_ep]

\* c.AFCommands.DataConfirm.Callback(partial=True, Endpoint=dst_ep, TSN=sequence)
ConfirmMatcher(a) == [name |-> "AF.DataConfirm", Endpoint |-> a.dst_ep, TSN |-> a.sequence]

\* partial matching: every field the matcher names equals the frame's field
Matches(matcher, frame) ==
    /\ DOMAIN matcher \subseteq DOMAIN frame
    /\ \A k \in DOMAIN matcher : matcher[k] = frame[k]

\* route recovery on any failed send
NeedsRouteDiscovery_AnyFailure(status) == status # "Success"

\* if response.Status == t.Status.NwkNoRoute
NeedsRouteDiscovery(status) == status = "NwkNoRoute"

\* the retry check treating only a repeated NwkNoRoute as failure
RetryFailed_OnlyNoRoute(status) == status = "NwkNoRoute"

\* if response.Status != t.Status.Success (after the retried send)
RetryFailed(status) == status # "Success"

\* the (status, message) pairs request() returns
Returned(status, message) == [kind |-> "returned", status |-> status, message |-> message]
Raised(error) == [kind |-> "raised", error |-> error]

\* return response.Status, ... after the delivery confirmation
ConfirmResult(status) ==
    IF status # "Success" THEN Returned(status, "Invalid response status")
    ELSE Returned(status, "Request sent successfully")

\* the call has a PendingRequest outstanding
Pending(r) == rpc[r] \in {"send1_pending", "disc_pending", "send2_pending"}

\* the request the call has outstanding
CurRequest(r) ==
    IF rpc[r] = "disc_pending" THEN ExtRouteDisc(rargs[r]) ELSE DataRequest(rargs[r])

\* a PendingRequest of another call for the same response schema is outstanding:
\* a second registration is an error
AlreadyPending(r, req) ==
    \E q \in Calls \ {r} : Pending(q) /\ CurRequest(q).name = req.name

\* await self._api.command(req): the request goes out and a PendingRequest is
\* registered
Issue(r, req, next) ==
    IF AlreadyPending(r, req)
    THEN /\ rpc' = [rpc EXCEPT ![r] = "end"]
         /\ rresult' = [rresult EXCEPT ![r] = Raised("AlreadyPending")]
         /\ UNCHANGED rhist
    ELSE /\ rpc' = [rpc EXCEPT ![r] = next]
         /\ rhist' = [rhist EXCEPT ![r] = Append(@, [ev |-> "req", frame |-> req])]
         /\ UNCHANGED rresult

\* await self._api.wait_for_response(DataConfirm...): the one-shot wait is
\* registered, lines 214-218
Wait(r) ==
    /\ rpc' = [rpc EXCEPT ![r] = "waiting"]
    /\ rhist' = [rhist EXCEPT ![r] =
                    Append(@, [ev |-> "wait", frame |-> ConfirmMatcher(rargs[r])])]
    /\ UNCHANGED rresult

\* request(...) is called and runs to its first await: lines 171-189. Calls are
\* numbered in the order they are made
request_call(r, device, dst_ep, sequence, use_ieee) ==
    /\ rpc[r] = "idle"
    /\ \A q \in Calls : q < r => rpc[q] # "idle"
    /\ LET a == [device |-> device, dst_ep |-> dst_ep, sequence |-> sequence,
                 use_ieee |-> use_ieee]
       IN  /\ rargs' = [rargs EXCEPT ![r] = a]
           /\ IF use_ieee
              THEN /\ rpc' = [rpc EXCEPT ![r] = "end"]
                   /\ rresult' = [rresult EXCEPT ![r] = Raised("ValueError")]
                   /\ UNCHANGED rhist
              ELSE Issue(r, DataRequest(a), "send1_pending")
    /\ UNCHANGED <<rrsp, rmissed, nConf>>
    /\ UNCHANGED notReq

\* dispatch_incoming of a synchronous response: resolves the call's PendingRequest.
\* The response of the route discovery is awaited and discarded (line 198); the
\* responses of the two sends are bound to `response` (lines 189, 206)
request_response(r, status) ==
    /\ Pending(r)
    /\ IF rpc[r] = "disc_pending"
       THEN /\ rhist' = [rhist EXCEPT ![r] =
                    Append(@, [ev |-> "rsp", frame |-> [name |-> CurRequest(r).name]])]
            /\ UNCHANGED rrsp
       ELSE LET frame == [name |-> CurRequest(r).name, Status |-> status]
            IN  /\ rrsp' = [rrsp EXCEPT ![r] = frame]
                /\ rhist' = [rhist EXCEPT ![r] = Append(@, [ev |-> "rsp", frame |-> frame])]
    /\ rpc' = [rpc EXCEPT ![r] = CASE rpc[r] = "send1_pending" -> "send1_done"
                                   [] rpc[r] = "disc_pending" -> "disc_done"
                                   [] rpc[r] = "send2_pending" -> "send2_done"]
    /\ UNCHANGED <<rargs, rresult, rmissed, nConf>>
    /\ UNCHANGED notReq

\* request() resumes after the first send: lines 192-204, or 214 when the status
\* is not NwkNoRoute
request_after_send(r) ==
    /\ rpc[r] = "send1_done"
    /\ IF NeedsRouteDiscovery(rrsp[r].Status)
       THEN Issue(r, ExtRouteDisc(rargs[r]), "disc_pending")
       ELSE Wait(r)
    /\ UNCHANGED <<rargs, rrsp, rmissed, nConf>>
    /\ UNCHANGED notReq

\* request() resumes after the route discovery and resends: line 206
request_after_disc(r) ==
    /\ rpc[r] = "disc_done"
    /\ Issue(r, DataRequest(rargs[r]), "send2_pending")
    /\ UNCHANGED <<rargs, rrsp, rmissed, nConf>>
    /\ UNCHANGED notReq

\* request() resumes after the retried send: lines 208-218
request_after_retry(r) ==
    /\ rpc[r] = "send2_done"
    /\ IF RetryFailed(rrsp[r].Status)
       THEN /\ rpc' = [rpc EXCEPT ![r] = "end"]
            /\ rresult' = [rresult EXCEPT ![r] =
                   Returned(rrsp[r].Status,
                            "Failed to send a message after discovering route")]
            /\ UNCHANGED rhist
       ELSE Wait(r)
    /\ UNCHANGED <<rargs, rrsp, rmissed, nConf>>
    /\ UNCHANGED notReq

\* a call has sent its data request and has not yet registered its wait
SentNotWaiting(r) ==
    rpc[r] \in {"send1_pending", "send1_done", "disc_pending", "disc_done",
                "send2_pending", "send2_done"}

\* dispatch_incoming of a DataConfirm callback: every live one-shot wait it
\* matches is resolved; if it matches none it is dropped. rmissed notes, per call,
\* the first confirmation for its (dst_ep, sequence) dropped between its send
\* and its wait
radio_data_confirm(ep, tsn, status) ==
    /\ nConf < MaxConfirms
    /\ nConf' = nConf + 1
    /\ LET frame == [name |-> "AF.DataConfirm", Endpoint |-> ep, TSN |-> tsn,
                     Status |-> status]
           hit(r) == rpc[r] = "waiting" /\ Matches(ConfirmMatcher(rargs[r]), frame)
           own(r) == /\ SentNotWaiting(r)
                     /\ rargs[r].dst_ep = ep /\ rargs[r].sequence = tsn
                     /\ rmissed[r] = NoFrame
       IN  /\ rpc' = [r \in Calls |-> IF hit(r) THEN "confirmed" ELSE rpc[r]]
           /\ rrsp' = [r \in Calls |-> IF hit(r) THEN frame ELSE rrsp[r]]
           /\ rhist' = [r \in Calls |->
                          IF hit(r) THEN Append(rhist[r], [ev |-> "confirm", frame |-> frame])
                          ELSE rhist[r]]
           /\ rmissed' = [r \in Calls |-> IF own(r) THEN frame ELSE rmissed[r]]
    /\ UNCHANGED <<rargs, rresult>>
    /\ UNCHANGED notReq

\* request() resumes after the delivery confirmation: lines 220-225
request_after_confirm(r) ==
    /\ rpc[r] = "confirmed"
    /\ rpc' = [rpc EXCEPT ![r] = "end"]
    /\ rresult' = [rresult EXCEPT ![r] = ConfirmResult(rrsp[r].Status)]
    /\ UNCHANGED <<rargs, rrsp, rhist, rmissed, nConf>>
    /\ UNCHANGED notReq

\* a pending request or wait of the call fails: timeout or link closure
request_fail(r, e) ==
    /\ Pending(r) \/ rpc[r] = "waiting"
    /\ rpc' = [rpc EXCEPT ![r] = "end"]
    /\ rresult' = [rresult EXCEPT ![r] = Raised(e)]
    /\ UNCHANGED <<rargs, rrsp, rhist, rmissed, nConf>>
    /\ UNCHANGED notReq

ReqNext ==
    \/ \E r \in Calls, d \in Devices, t \in Targets, u \in BOOLEAN :
          request_call(r, d, t[1], t[2], u)
    \/ \E r \in Calls, s \in Statuses : request_response(r, s)
    \/ \E r \in Calls : request_after_send(r)
    \/ \E r \in Calls : request_after_disc(r)
    \/ \E r \in Calls : request_after_retry(r)
    \/ \E ep \in Endpoints, tsn \in Sequences, s \in ConfirmStatuses :
          radio_data_confirm(ep, tsn, s)
    \/ \E r \in Calls : request_after_confirm(r)
    \/ \E r \in Calls, e \in ApiErrors : request_fail(r, e)


----------------------------------------------------------------------------
\* mrequest, broadcast and force_remove: lines 227-286. Each body is a single
\* raise; the arguments are not looked at.
GroupIds == {1, 2}
Radii == {0, 30}

\* an unsupported operation that quietly reports success
NotSupported_SilentSuccess == Returned("Success", "Request sent successfully")

\* raise NotImplementedError()
NotSupported == Raised("NotImplementedError")

mrequest(group_id, sequence) ==
    /\ unsupported' = [op |-> "mrequest", result |-> NotSupported]
    /\ UNCHANGED notUns

broadcast(radius, sequence) ==
    /\ unsupported' = [op |-> "broadcast", result |-> NotSupported]
    /\ UNCHANGED notUns

force_remove(dev) ==
    /\ unsupported' = [op |-> "force_remove", result |-> NotSupported]
    /\ UNCHANGED notUns

\* startup, form_network and the unsupported operations against the radio
LifeNext ==
    \/ \E f \in BOOLEAN, k \in RandomKeys, e \in RandomExtPanIds : startup_call(f, k, e)
    \/ \E c \in FormChannels, p \in PanIds, x \in ExtPanIds,
          k \in RandomKeys, e \in RandomExtPanIds : form_network_call(c, p, x, k, e)
    \/ \E r \in StartupStates \cup Statuses : radio_respond(r)
    \/ \E s \in DeviceStates : radio_state_change(s)
    \/ \E e \in ApiErrors : api_fail(e)
    \/ startup_resume
    \/ form_network_resume
    \/ \E g \in GroupIds, q \in Sequences : mrequest(g, q)
    \/ \E d \in Radii, q \in Sequences : broadcast(d, q)
    \/ \E d \in Devices : force_remove(d)

----------------------------------------------------------------------------
\* restore_network (tools/network_restore.py)

\* JSON values as Python sees them: a type and a value. bool is a subtype of
\* int (True == 1)
PyNone == [t |-> "NoneType", v |-> 0]
PyStr(x) == [t |-> "str", v |-> x]
PyInt(x) == [t |-> "int", v |-> x]
PyTrue == [t |-> "bool", v |-> 1]
PyNumeric == {"int", "bool"}

\* Python's == and != on these values
PyEq(a, b) ==
    IF a.t \in PyNumeric /\ b.t \in PyNumeric THEN a.v = b.v
    ELSE a.t = b.t /\ a.v = b.v
PyNe(a, b) == ~PyEq(a, b)

\* dict.get(key, default)
EmptyDict == [k \in {} |-> PyNone]
Get(d, k, default) == IF k \in DOMAIN d THEN d[k] ELSE default

BACKUP_VERSION == 1
BACKUP_FORMAT == "zigpy/open-coordinator-backup"

\* backup.get("metadata", {}).get("format") / .get("version"): lines 22-23
backup_format(backup) ==
    LET metadata == Get(backup, "metadata", EmptyDict)
    IN  Get(metadata, "format", PyNone)
backup_version(backup) ==
    LET metadata == Get(backup, "metadata", EmptyDict)
    IN  Get(metadata, "version", PyNone)

\* a version check that lets newer versions through
VersionRejected_OlderOnly(version) == version.t \in PyNumeric /\ version.v < BACKUP_VERSION

\* if backup_format != "zigpy/open-coordinator-backup": line 25
FormatRejected(format) == PyNe(format, PyStr(BACKUP_FORMAT))
\* if backup_version != BACKUP_VERSION: line 28
VersionRejected(version) == PyNe(version, PyInt(BACKUP_VERSION))

\* bytes.fromhex(...)[::-1]
Reverse(bytes) == [i \in 1..Len(bytes) |-> bytes[Len(bytes) + 1 - i]]
\* t.NWK.deserialize: 16 bits, least significant byte first
DeserializeNWK(bytes) == bytes[1] + 256 * bytes[2]

\* StoredDevice(nwk=nwk, ieee=ieee) and its replace(...): lines 42-56
StoredDevice(obj) ==
    LET dev == [nwk |-> DeserializeNWK(Reverse(obj.nwk_address)),
                ieee |-> Reverse(obj.ieee_address),
                aps_link_key |-> None, tx_counter |-> 0, rx_counter |-> 0]
    IN  IF "link_key" \in DOMAIN obj
        THEN [dev EXCEPT !.aps_link_key = Some(obj.link_key.key),
                         !.tx_counter = obj.link_key.tx_counter,
                         !.rx_counter = obj.link_key.rx_counter]
        ELSE dev
StoredDevices(backup) ==
    [i \in 1..Len(backup.devices) |-> StoredDevice(backup.devices[i])]

\* the optional trust-center link key seed: lines 81-86
tclk_seed(backup, version) ==
    LET zstack == Get(Get(backup, "stack_specific", EmptyDict), "zstack", EmptyDict)
        seed == Get(zstack, "tclk_seed", "")
    IN  IF version > 120 /\ seed # "" THEN Some(seed) ELSE None

\* a frame counter restored as it was saved
nwk_frame_counter_AsSaved(backup, counter_increment) ==
    backup.network_key.frame_counter

\* nwk_frame_counter = backup["network_key"]["frame_counter"] + counter_increment
nwk_frame_counter(backup, counter_increment) ==
    backup.network_key.frame_counter + counter_increment

\* znp.security.write_devices: the link-key entries it stores, one per device
\* that carries a link key, with both counters advanced by counter_increment
write_devices(devices, seed, counter_increment) ==
    LET keyed == SelectSeq(devices, LAMBDA d : d.aps_link_key # None)
    IN  [i \in 1..Len(keyed) |->
            [ieee |-> keyed[i].ieee,
             key |-> keyed[i].aps_link_key[1],
             seed |-> seed,
             tx_counter |-> keyed[i].tx_counter + counter_increment,
             rx_counter |-> keyed[i].rx_counter + counter_increment]]

\* a network key record that keeps the frame counter of the document
key_info_CounterAsSaved(backup, counter_increment) ==
    [Active |-> [KeySeqNum |-> backup.network_key.sequence_number,
                 Key |-> backup.network_key.key],
     FrameCounter |-> backup.network_key.frame_counter]

\* t.NwkActiveKeyItems(Active=t.NwkKeyDesc(...), FrameCounter=nwk_frame_counter)
key_info(backup, counter_increment) ==
    [Active |-> [KeySeqNum |-> backup.network_key.sequence_number,
                 Key |-> backup.network_key.key],
     FrameCounter |-> nwk_frame_counter(backup, counter_increment)]

\* the NIB read back with the three fields of the backup set: lines 75-79
UpdatedNib(nib, backup) ==
    [nib EXCEPT !.channelList = from_channels(backup.channel_mask),
                !.nwkUpdateId = backup.nwk_update_id,
                !.SecurityLevel = backup.security_level]

\* ControllerApplication(config) with the network settings of the backup:
\* lines 58-64
CreateApp(backup) ==
    [op |-> "create_app",
     nwk_key |-> backup.network_key.key,
     pan_id |-> DeserializeNWK(Reverse(backup.pan_id)),
     channel |-> backup.channel,
     extended_pan_id |-> Reverse(backup.extended_pan_id)]

OsalWrite(id, value) == [op |-> "osal_write", id |-> id, value |-> value]

\* a restore that resets the radio before it writes the device link keys
RestoreSteps_ResetBeforeDevices(a, nib) ==
    LET backup == a.backup
        seed == tclk_seed(backup, a.version)
        keys == key_info(backup, a.counter_increment)
    IN  << [op |-> "startup", force_form |-> TRUE],
           [op |-> "load_network_info"],
           [op |-> "reset"],
           OsalWrite("EXTADDR", Reverse(backup.coordinator_ieee)),
           [op |-> "osal_read", id |-> "NIB"],
           OsalWrite("NIB", UpdatedNib(nib, backup)) >>
        \o (IF seed # None THEN << OsalWrite("TCLK_SEED", seed[1]) >> ELSE << >>)
        \o << OsalWrite("NWKKEY", keys),
              OsalWrite("NWK_ACTIVE_KEY_INFO", keys.Active),
              OsalWrite("NWK_ALTERN_KEY_INFO", keys.Active),
              [op |-> "write_tc_frame_counter",
               value |-> nwk_frame_counter(backup, a.counter_increment)],
              [op |-> "reset"],
              [op |-> "write_devices", devices |-> StoredDevices(backup), seed |-> seed,
               counter_increment |-> a.counter_increment] >>

\* restore_network: the awaited steps, in program order (lines 66-108)
RestoreSteps(a, nib) ==
    LET backup == a.backup
        seed == tclk_seed(backup, a.version)
        keys == key_info(backup, a.counter_increment)
    IN  << [op |-> "startup", force_form |-> TRUE],
           [op |-> "load_network_info"],
           [op |-> "reset"],
           OsalWrite("EXTADDR", Reverse(backup.coordinator_ieee)),
           [op |-> "osal_read", id |-> "NIB"],
           OsalWrite("NIB", UpdatedNib(nib, backup)) >>
        \o (IF seed # None THEN << OsalWrite("TCLK_SEED", seed[1]) >> ELSE << >>)
        \o << OsalWrite("NWKKEY", keys),
              OsalWrite("NWK_ACTIVE_KEY_INFO", keys.Active),
              OsalWrite("NWK_ALTERN_KEY_INFO", keys.Active),
              [op |-> "write_tc_frame_counter",
               value |-> nwk_frame_counter(backup, a.counter_increment)],
              [op |-> "write_devices", devices |-> StoredDevices(backup), seed |-> seed,
               counter_increment |-> a.counter_increment],
              [op |-> "reset"] >>

\* Backup documents and the other inputs of restore_network
Formats == {PyStr(BACKUP_FORMAT), PyStr("zigpy/other-backup"), PyNone}
Versions == {PyInt(1), PyInt(2), PyStr("1"), PyTrue, PyNone}
Metadatas ==
    {EmptyDict}
    \cup {[format |-> f] : f \in Formats}
    \cup {[version |-> v] : v \in Versions}
    \cup {[format |-> f, version |-> v] : f \in Formats, v \in Versions}
FrameCounters == {0, 1000}
CounterIncrements == {0, 1, 2500}
FirmwareVersions == {120, 330}
LinkedDevice ==
    [nwk_address |-> <<190, 239>>, ieee_address |-> <<0, 17, 34, 51, 68, 85, 102, 119>>,
     link_key |-> [key |-> "linkkey:1", tx_counter |-> 10, rx_counter |-> 20]]
PlainDevice ==
    [nwk_address |-> <<18, 52>>, ieee_address |-> <<0, 17, 34, 51, 68, 85, 102, 120>>]
DeviceLists == {<< >>, <<LinkedDevice>>, <<LinkedDevice, PlainDevice>>}
StackSpecifics == {EmptyDict, [stack_specific |-> [zstack |-> [tclk_seed |-> "seed:1"]]]}
Body(F, devices) ==
    [pan_id |-> <<18, 52>>,
     extended_pan_id |-> <<1, 2, 3, 4, 5, 6, 7, 8>>,
     coordinator_ieee |-> <<0, 18, 75, 0, 1, 2, 3, 4>>,
     network_key |-> [key |-> "nwkkey:1", sequence_number |-> 0, frame_counter |-> F],
     channel |-> 15,
     channel_mask |-> {15, 20},
     nwk_update_id |-> 1,
     security_level |-> 5,
     devices |-> devices]
BackupDocs ==
    {m @@ x @@ Body(F, d) :
        m \in {EmptyDict} \cup {[metadata |-> md] : md \in Metadatas},
        x \in StackSpecifics, F \in FrameCounters, d \in DeviceLists}
Nibs == {[channelList |-> 0, nwkUpdateId |-> 0, SecurityLevel |-> 0, nwkState |-> "NWK_ROUTER"]}

NoRestore == [backup |-> EmptyDict, counter_increment |-> 0, version |-> 0]
NoNib == [channelList |-> 0, nwkUpdateId |-> 0, SecurityLevel |-> 0, nwkState |-> "none"]

\* restore_network(radio_path, backup, counter_increment) is called and runs to
\* its first await: lines 22-66
restore_call(backup, counter_increment, version) ==
    /\ rsPc = "idle"
    /\ rsArgs' = [backup |-> backup, counter_increment |-> counter_increment,
                  version |-> version]
    /\ IF FormatRejected(backup_format(backup))
       THEN /\ rsResult' = Raised("ValueError: Backup format not recognized")
            /\ rsPc' = "end"
            /\ UNCHANGED <<rsStep, rsLog>>
       ELSE IF VersionRejected(backup_version(backup))
            THEN /\ rsResult' = Raised("ValueError: Backup format version is not compatible")
                 /\ rsPc' = "end"
                 /\ UNCHANGED <<rsStep, rsLog>>
            ELSE /\ rsLog' = <<CreateApp(backup), RestoreSteps(rsArgs', rsNib)[1]>>
                 /\ rsStep' = 1
                 /\ rsPc' = "pending"
                 /\ UNCHANGED rsResult
    /\ UNCHANGED rsNib
    /\ UNCHANGED notRest

\* the awaited step completes on the radio; the NIB read returns the record
restore_response(nib) ==
    /\ rsPc = "pending"
    /\ rsPc' = "resolved"
    /\ rsNib' = IF RestoreSteps(rsArgs, rsNib)[rsStep].op = "osal_read" THEN nib ELSE rsNib
    /\ UNCHANGED <<rsStep, rsArgs, rsLog, rsResult>>
    /\ UNCHANGED notRest

\* restore_network resumes: the next step is issued, or the session is closed
\* and restore_network returns (line 110)
restore_resume ==
    /\ rsPc = "resolved"
    /\ IF rsStep < Len(RestoreSteps(rsArgs, rsNib))
       THEN /\ rsStep' = rsStep + 1
            /\ rsLog' = Append(rsLog, RestoreSteps(rsArgs, rsNib)[rsStep + 1])
            /\ rsPc' = "pending"
            /\ UNCHANGED rsResult
       ELSE /\ rsLog' = Append(rsLog, [op |-> "close"])
            /\ rsResult' = [kind |-> "returned"]
            /\ rsPc' = "end"
            /\ UNCHANGED rsStep
    /\ UNCHANGED <<rsArgs, rsNib>>
    /\ UNCHANGED notRest

\* a restore that closes the session when a step raises
restore_fail_ClosingSession(e) ==
    /\ rsPc = "pending"
    /\ rsResult' = Raised(e)
    /\ rsLog' = Append(rsLog, [op |-> "close"])
    /\ rsPc' = "end"
    /\ UNCHANGED <<rsStep, rsArgs, rsNib>>
    /\ UNCHANGED notRest

\* the awaited step raises: the error propagates out of restore_network
restore_fail(e) ==
    /\ rsPc = "pending"
    /\ rsResult' = Raised(e)
    /\ rsPc' = "end"
    /\ UNCHANGED <<rsStep, rsArgs, rsNib, rsLog>>
    /\ UNCHANGED notRest

RestNext ==
    \/ \E b \in BackupDocs, c \in CounterIncrements, v \in FirmwareVersions :
          restore_call(b, c, v)
    \/ \E n \in Nibs : restore_response(n)
    \/ restore_resume
    \/ \E e \in ApiErrors : restore_fail(e)

----------------------------------------------------------------------------
\* on_af_message (zigbee/application.py, lines 31-59)

Device_annce == 19
PROFILE_ID == 260

\* t.uint8_t.deserialize, t.NWK.deserialize, t.EUI64.deserialize: the value
\* read from the front of the data (least significant byte first) and the rest
Rest(data, n) == SubSeq(data, n + 1, Len(data))
DeserializeUint8(data) == <<data[1], Rest(data, 1)>>
DeserializeNWKFrom(data) == <<data[1] + 256 * data[2], Rest(data, 2)>>
DeserializeEUI64(data) == <<SubSeq(data, 1, 8), Rest(data, 8)>>

\* [Sequence Number] + [16-bit address] + [64-bit address] + [Capability]
DecodeAnnounce(data) ==
    LET s == DeserializeUint8(data)
        n == DeserializeNWKFrom(s[2])
        i == DeserializeEUI64(n[2])
    IN  [sequence |-> s[1], nwk |-> n[1], ieee |-> i[1], capability |-> i[2]]

\* a handler that takes every frame of the announce cluster for an announce
IsDeviceAnnounce_AnyEndpoint(msg) == msg.ClusterId = Device_annce

\* msg.ClusterId == zdo_t.ZDOCmd.Device_annce and msg.DstEndpoint == 0
IsDeviceAnnounce(msg) == msg.ClusterId = Device_annce /\ msg.DstEndpoint = 0

\* self.handle_join(nwk, ieee, parent_nwk=0x0000): the join event
JoinEvent(n, nwk, ieee, parent_nwk) ==
    [ev |-> "handle_join", msg |-> n, nwk |-> nwk, ieee |-> ieee, parent_nwk |-> parent_nwk]

\* the Device table after the join event: the consumer of the event may have
\* created the record of the announced device
NoDevices == [n \in {} |-> [ieee |-> <<>>, lqi |-> None, rssi |-> None]]
NewDevice(ieee) == [ieee |-> ieee, lqi |-> None, rssi |-> None]
AfterJoin(table, nwk, ieee, creates) ==
    IF creates /\ nwk \notin DOMAIN table
    THEN [k \in DOMAIN table \cup {nwk} |-> IF k = nwk THEN NewDevice(ieee) ELSE table[k]]
    ELSE table

\* self.get_device(nwk=msg.SrcAddr): the record, or KeyError
get_device(table, nwk) == IF nwk \in DOMAIN table THEN Some(nwk) ELSE None

\* a radio_details that records nothing
radio_details_Unrecorded(device, lqi, rssi) == device

\* device.radio_details(lqi=msg.LQI, rssi=None)
radio_details(device, lqi, rssi) == [device EXCEPT !.lqi = lqi, !.rssi = rssi]

\* self.handle_message(sender=device, profile=..., cluster=..., ...)
HandleMessage(n, sender, msg) ==
    [ev |-> "handle_message", msg |-> n, sender |-> sender, profile |-> PROFILE_ID,
     cluster |-> msg.ClusterId, src_ep |-> msg.SrcEndpoint, dst_ep |-> msg.DstEndpoint,
     message |-> msg.Data]

\* Incoming frames
Nwks == {48879, 4660}
AnnouncePayloads ==
    {<<1, 239, 190, 119, 102, 85, 68, 51, 34, 17, 0, 142>>,
     <<2, 52, 18, 120, 102, 85, 68, 51, 34, 17, 0, 142>>}
Payloads == AnnouncePayloads \cup {<<24, 1, 10>>}
IncomingMsgs ==
    {m \in [ClusterId : {Device_annce, 6}, DstEndpoint : {0, 1}, SrcEndpoint : {1},
            SrcAddr : Nwks, LQI : {50, 200}, Data : Payloads] :
        m.ClusterId = Device_annce => m.Data \in AnnouncePayloads}

\* on_af_message(msg): the handler is synchronous and runs as one step
on_af_message(msg, creates) ==
    /\ Len(handled) < MaxMessages
    /\ LET n == Len(handled) + 1
           a == DecodeAnnounce(msg.Data)
           joined == IF IsDeviceAnnounce(msg)
                     THEN <<JoinEvent(n, a.nwk, a.ieee, 0)>> ELSE << >>
           table == IF IsDeviceAnnounce(msg)
                    THEN AfterJoin(deviceTable, a.nwk, a.ieee, creates) ELSE deviceTable
           device == get_device(table, msg.SrcAddr)
           lookup == <<[ev |-> "get_device", msg |-> n, nwk |-> msg.SrcAddr,
                        found |-> device # None]>>
       IN  IF device = None
           THEN /\ events' = events \o joined \o lookup
                /\ deviceTable' = table
                /\ handled' = Append(handled, [msg |-> msg, outcome |-> "returned"])
           ELSE /\ deviceTable' = [table EXCEPT ![device[1]] =
                                  radio_details(table[device[1]], Some(msg.LQI), None)]
                /\ events' = events \o joined \o lookup
                      \o <<[ev |-> "radio_details", msg |-> n, nwk |-> device[1],
                            lqi |-> deviceTable'[device[1]].lqi,
                            rssi |-> deviceTable'[device[1]].rssi],
                           HandleMessage(n, device[1], msg)>>
                /\ handled' = Append(handled, [msg |-> msg, outcome |-> "returned"])
    /\ UNCHANGED notMsg

\* a Device record appears in the table: loaded from the database, or created
\* once a joined device has been initialised
device_added(nwk, ieee) ==
    /\ nwk \notin DOMAIN deviceTable
    /\ deviceTable' = AfterJoin(deviceTable, nwk, ieee, TRUE)
    /\ UNCHANGED <<events, handled>>
    /\ UNCHANGED notMsg

MsgNext ==
    \/ \E m \in IncomingMsgs, c \in BOOLEAN : on_af_message(m, c)
    \/ \E p \in AnnouncePayloads :
          device_added(DecodeAnnounce(p).nwk, DecodeAnnounce(p).ieee)

----------------------------------------------------------------------------
\* The frame registry (commands/__init__.py, lines 25-36)

\* a schema: its name and its header (the frame id)
Schema(name, header) == [name |-> name, header |-> header]

\* command definitions: Req, Rsp and Callback are a schema or None. Lookup and
\* Reading carry the same header in their Req.
CommandDefs ==
    {[Req |-> Some(Schema("Ping.Req", 1)), Rsp |-> Some(Schema("Ping.Rsp", 2)),
      Callback |-> None],
     [Req |-> Some(Schema("Lookup.Req", 3)), Rsp |-> None, Callback |-> None],
     [Req |-> None, Rsp |-> None, Callback |-> Some(Schema("Joined.Callback", 4))],
     [Req |-> Some(Schema("Reading.Req", 3)), Rsp |-> Some(Schema("Reading.Rsp", 5)),
      Callback |-> None]}

\* command lists: each definition at most once, in any order
CommandLists ==
    {l \in UNION {[1..n -> CommandDefs] : n \in 0..MaxCommands} :
        \A i, j \in 1..Len(l) : l[i] = l[j] => i = j}

\* COMMANDS_BY_ID = {}
NoCommands == [h \in {} |-> Schema("", 0)]

\* COMMANDS_BY_ID[schema.header] = schema
Assign(registry, schema) ==
    [h \in DOMAIN registry \cup {schema.header} |->
        IF h = schema.header THEN schema ELSE registry[h]]

\* if command.X is not None: COMMANDS_BY_ID[command.X.header] = command.X
AssignIfPresent(registry, schema) ==
    IF schema # None THEN Assign(registry, schema[1]) ELSE registry

\* the body of the inner loop for one command: lines 29-36
Register(registry, command) ==
    AssignIfPresent(AssignIfPresent(AssignIfPresent(registry, command.Req),
                                    command.Rsp), command.Callback)

\* the module is imported with a list of command definitions: line 25
import_commands(list) ==
    /\ regPc = "idle"
    /\ ALL_COMMANDS' = list
    /\ COMMANDS_BY_ID' = NoCommands
    /\ regPos' = 0
    /\ regPc' = IF list = << >> THEN "done" ELSE "building"
    /\ UNCHANGED notReg

\* one iteration of the loop over the commands: lines 27-36
register_command ==
    /\ regPc = "building"
    /\ COMMANDS_BY_ID' = Register(COMMANDS_BY_ID, ALL_COMMANDS[regPos + 1])
    /\ regPos' = regPos + 1
    /\ regPc' = IF regPos + 1 = Len(ALL_COMMANDS) THEN "done" ELSE "building"
    /\ UNCHANGED ALL_COMMANDS
    /\ UNCHANGED notReg

RegNext ==
    \/ \E l \in CommandLists : import_commands(l)
    \/ register_command

----------------------------------------------------------------------------
\* Properties of startup and form_network (SpecLifecycle)

LogIdx == 1..Len(log)

PreStartIds == {"STARTUP_OPTION", "LOGICAL_TYPE", "PRECFGKEY", "PRECFGKEYS_ENABLE",
                "CHANLIST", "ZDO_DIRECT_CB", "PANID", "EXTENDED_PAN_ID"}

IsConfigWrite(e) == e.ev = "req" /\ e.api = "nvram_write" /\ e.name \in PreStartIds
IsSoftResetReq(e) == e.ev = "req" /\ e.name = "SYS.ResetReq" /\ e.arg = "Soft"
IsSoftResetRsp(e) == e.ev = "rsp" /\ e.name = "SYS.ResetReq" /\ e.arg = "Soft"
IsSetChannelReq(e) == e.ev = "req" /\ e.name = "APP_CNF.BDBSetChannel"
IsSetPrimaryRsp(e) == e.ev = "rsp" /\ e.name = "APP_CNF.BDBSetChannel" /\ e.arg.IsPrimary
IsCommissioningReq(e, mode) ==
    e.ev = "req" /\ e.name = "APP_CNF.BDBStartCommissioning" /\ e.arg = mode
IsStartedInd(e) ==
    e.ev = "ind" /\ e.name = "ZDO.StateChangeInd" /\ e.arg = "StartedAsCoordinator"

\* C1 as stated: every pre-start configuration write is issued strictly before
\* the soft reset request, and none after it.
C1_AllWritesBeforeSoftReset ==
    \A i, j \in LogIdx :
        IsConfigWrite(log[i]) /\ IsSoftResetReq(log[j]) => i < j

\* C1 as the code has it: the startup-option and logical-type writes are issued
\* strictly before the soft reset request; the six other pre-start writes
\* (network key, pre-configured-keys flag, channel mask, verbose-callback flag,
\* PAN id, extended PAN id) are issued only after the soft reset has completed.
C1_WritesAroundSoftReset ==
    \A i, j \in LogIdx :
        IsConfigWrite(log[i]) /\ IsSoftResetReq(log[j]) =>
            IF log[i].name \in {"STARTUP_OPTION", "LOGICAL_TYPE"}
            THEN i < j
            ELSE \E k \in LogIdx : j < k /\ k < i /\ IsSoftResetRsp(log[k])

\* form_network has issued the soft reset and the last configuration write
C1_Witness ==
    /\ op = "form_network"
    /\ \E j \in LogIdx : IsSoftResetReq(log[j])
    /\ \E i \in LogIdx : IsConfigWrite(log[i]) /\ log[i].name = "EXTENDED_PAN_ID"
    /\ \A id \in PreStartIds : \E i \in LogIdx : IsConfigWrite(log[i]) /\ log[i].name = id

\* C2: the steps of form_network never overlap (a request is followed by its own
\* response before anything else is issued); the soft reset completes before the
\* first BDB set-channel command, set-primary-channel completes before the
\* formation command, the steering command is issued only after a
\* StartedAsCoordinator state change observed after the formation command, and
\* form_network does not return without that state change.
C2_CommissioningOrdered ==
    /\ \A i \in LogIdx :
          log[i].ev = "req" =>
             IF i < Len(log)
             THEN /\ log[i + 1].ev = "rsp"
                  /\ log[i + 1].api = log[i].api
                  /\ log[i + 1].name = log[i].name
             ELSE phase \in {"pending", "end"}
    /\ \A j \in LogIdx :
          IsSetChannelReq(log[j]) => \E i \in LogIdx : i < j /\ IsSoftResetRsp(log[i])
    /\ \A j \in LogIdx :
          IsCommissioningReq(log[j], "NetworkFormation") =>
             \E i \in LogIdx : i < j /\ IsSetPrimaryRsp(log[i])
    /\ \A j \in LogIdx :
          IsCommissioningReq(log[j], "NetworkSteering") =>
             \E f, k \in LogIdx :
                /\ f < k /\ k < j
                /\ IsCommissioningReq(log[f], "NetworkFormation")
                /\ IsStartedInd(log[k])
    /\ (op = "form_network" /\ outcome = "returned") =>
          \E f, k \in LogIdx :
             /\ f < k
             /\ IsCommissioningReq(log[f], "NetworkFormation")
             /\ IsStartedInd(log[k])

\* form_network has returned
C2_Witness ==
    /\ op = "form_network"
    /\ outcome = "returned"
    /\ \E j \in LogIdx : IsCommissioningReq(log[j], "NetworkSteering")

\* C8 as stated: startup() does not return before the radio's started
\* state-change callback has been delivered.
C8_StartupAwaitsStarted ==
    (op = "startup" /\ outcome = "returned") => "StartedAsCoordinator" \in indSeen

StartRequests == {i \in LogIdx : log[i].ev = "req" /\ log[i].name = "ZDO.StartupFromApp"}

\* C9: startup() issues exactly one start request; it fails with the
\* network-start-failed error exactly when the response state is NotStarted, and
\* then never reports a started network.
C9_StartFailedIffNotStarted ==
    op = "startup" =>
        /\ Cardinality(StartRequests) = 1
        /\ outcome = "RuntimeError: Network failed to start" => rsp = "NotStarted"
        /\ outcome = "returned" => rsp \in StartupStates \ {"NotStarted"}
        /\ (phase = "end" /\ rsp = "NotStarted") =>
              outcome = "RuntimeError: Network failed to start"

\* startup() has failed because the radio answered NotStarted
C9_Witness ==
    /\ op = "startup"
    /\ outcome = "RuntimeError: Network failed to start"
    /\ rsp = "NotStarted"


\* C19: startup() never runs the formation workflow: whatever auto_form is,
\* the only request it issues is the start request; it issues no store write,
\* no soft reset and no commissioning command.
C19_StartupOnlyStarts ==
    op = "startup" =>
        /\ fn = "startup"
        /\ \A i \in LogIdx :
              /\ log[i].name = "ZDO.StartupFromApp"
              /\ log[i].api # "nvram_write"
              /\ ~IsSoftResetReq(log[i])
              /\ ~IsCommissioningReq(log[i], "NetworkFormation")
              /\ ~IsCommissioningReq(log[i], "NetworkSteering")

\* startup(auto_form=True) has returned after its start request was answered
C19_Witness ==
    /\ op = "startup"
    /\ args.auto_form
    /\ outcome = "returned"
    /\ Len(log) = 2
    /\ log[1].ev = "req"
    /\ log[1].name = "ZDO.StartupFromApp"

\* C13: mrequest, broadcast and force_remove, in any state and with any
\* arguments, end at once with a not-supported error: the call sends no frame,
\* writes nothing to the store, leaves the running operation where it was and
\* never returns a normal result.
C13_UnsupportedFailAtOnce ==
    [][unsupported' # unsupported =>
          /\ unsupported'.op \in {"mrequest", "broadcast", "force_remove"}
          /\ unsupported'.result = Raised("NotImplementedError")
          /\ log' = log
          /\ UNCHANGED <<lifeVars, reqVars, restVars>>]_vars

\* broadcast was called while form_network had a request outstanding
C13_Witness ==
    /\ unsupported.op = "broadcast"
    /\ unsupported.result.kind = "raised"
    /\ fn = "form_network"
    /\ phase = "pending"
    /\ Len(log) > 2

----------------------------------------------------------------------------
\* Properties of request() (SpecRequest)

HistIdx(r) == 1..Len(rhist[r])
IsSend(e) == e.ev = "req" /\ e.frame.name = "AF.DataRequest"
IsSendRsp(e) == e.ev = "rsp" /\ e.frame.name = "AF.DataRequest"
IsDisc(e) == e.ev = "req" /\ e.frame.name = "ZDO.ExtRouteDisc"
IsDiscRsp(e) == e.ev = "rsp" /\ e.frame.name = "ZDO.ExtRouteDisc"
Sends(r) == {i \in HistIdx(r) : IsSend(rhist[r][i])}
SendRsps(r) == {i \in HistIdx(r) : IsSendRsp(rhist[r][i])}
Discs(r) == {i \in HistIdx(r) : IsDisc(rhist[r][i])}
Waits(r) == {i \in HistIdx(r) : rhist[r][i].ev = "wait"}
Confirms(r) == {i \in HistIdx(r) : rhist[r][i].ev = "confirm"}
Min(S) == CHOOSE x \in S : \A y \in S : x <= y
Max(S) == CHOOSE x \in S : \A y \in S : x >= y
\* the synchronous statuses of the first and of the most recent send
FirstStatus(r) == rhist[r][Min(SendRsps(r))].frame.Status
LastStatus(r) == rhist[r][Max(SendRsps(r))].frame.Status
\* the call is past the retry block (line 213 or later) or has returned
PastRetry(r) ==
    \/ rpc[r] \in {"waiting", "confirmed"}
    \/ rpc[r] = "end" /\ rresult[r].kind = "returned"

\* C3: one call of request() sends the data request at most twice and the forced
\* route discovery at most once; the second send happens iff the first send's
\* status is NwkNoRoute, it resends the same frame, and it is issued only after
\* the route discovery toward the destination's IEEE address has completed.
C3_RetryOnceAfterNoRoute ==
    \A r \in Calls :
        /\ Cardinality(Sends(r)) <= 2
        /\ Cardinality(Discs(r)) <= 1
        /\ Cardinality(Sends(r)) = 2 =>
              /\ SendRsps(r) # {}
              /\ FirstStatus(r) = "NwkNoRoute"
              /\ rhist[r][Max(Sends(r))].frame = rhist[r][Min(Sends(r))].frame
              /\ \E i, k \in HistIdx(r) :
                    /\ Min(SendRsps(r)) < i /\ i < k /\ k < Max(Sends(r))
                    /\ IsDisc(rhist[r][i])
                    /\ rhist[r][i].frame.Dst = rargs[r].device.ieee
                    /\ rhist[r][i].frame.Options = "Force"
                    /\ IsDiscRsp(rhist[r][k])
        /\ (SendRsps(r) # {} /\ PastRetry(r)) =>
              (Cardinality(Sends(r)) = 2 <=> FirstStatus(r) = "NwkNoRoute")
        /\ Discs(r) # {} => FirstStatus(r) = "NwkNoRoute"

\* a call has resent its data request after a route discovery and has ended
C3_Witness ==
    \E r \in Calls :
        /\ rpc[r] = "end"
        /\ Cardinality(Sends(r)) = 2
        /\ Cardinality(Discs(r)) = 1
        /\ rresult[r].kind = "returned"

\* C4: when the first send returns NwkNoRoute and the retried send returns a
\* status other than Success, request() returns a failure carrying the second
\* attempt's status and never waits for a delivery confirmation.
C4_RetryFailureCarriesSecondStatus ==
    \A r \in Calls :
        (/\ Cardinality(SendRsps(r)) = 2
         /\ FirstStatus(r) = "NwkNoRoute"
         /\ LastStatus(r) # "Success") =>
            /\ Waits(r) = {}
            /\ rpc[r] \in {"send2_done", "end"}
            /\ rpc[r] = "end" =>
                  rresult[r] = Returned(LastStatus(r),
                                        "Failed to send a message after discovering route")

\* a call ended after NwkNoRoute then Failure, reporting Failure
C4_Witness ==
    \E r \in Calls :
        /\ rpc[r] = "end"
        /\ Cardinality(SendRsps(r)) = 2
        /\ FirstStatus(r) = "NwkNoRoute"
        /\ LastStatus(r) = "Failure"
        /\ rresult[r].kind = "returned"
        /\ rresult[r].status = "Failure"

\* C5 as stated: request() waits for the delivery confirmation only when the
\* synchronous status of the most recent send is Success.
C5_WaitsOnlyAfterSuccess ==
    \A r \in Calls :
        Waits(r) # {} => LastStatus(r) = "Success"

\* C6: a waiting request() is completed only by a confirmation whose Endpoint
\* is its dst_ep and whose TSN is its sequence, at most once, and it returns that
\* confirmation's status, as success iff the status is Success; so of two
\* concurrent calls with distinct (dst_ep, sequence) each is completed by its own
\* confirmation.
C6_CompletedByOwnConfirm ==
    \A r \in Calls :
        /\ Cardinality(Confirms(r)) <= 1
        /\ \A i \in Confirms(r) :
              /\ rhist[r][i].frame.Endpoint = rargs[r].dst_ep
              /\ rhist[r][i].frame.TSN = rargs[r].sequence
              /\ i = Len(rhist[r])
              /\ \E w \in Waits(r) : w < i
        /\ rpc[r] = "confirmed" => Confirms(r) # {}
        /\ (rpc[r] = "end" /\ Waits(r) # {} /\ rresult[r].kind = "returned") =>
              /\ Confirms(r) # {}
              /\ rresult[r].status = rhist[r][Len(rhist[r])].frame.Status
              /\ (rresult[r].message = "Request sent successfully"
                    <=> rhist[r][Len(rhist[r])].frame.Status = "Success")
              /\ (rresult[r].message = "Invalid response status"
                    <=> rhist[r][Len(rhist[r])].frame.Status # "Success")

\* two calls with distinct (dst_ep, sequence) were both completed by
\* confirmations, with different statuses
C6_Witness ==
    /\ <<rargs[1].dst_ep, rargs[1].sequence>> # <<rargs[2].dst_ep, rargs[2].sequence>>
    /\ \A r \in Calls : rpc[r] = "end" /\ Confirms(r) # {}
    /\ rresult[1] = Returned("NwkNoRoute", "Invalid response status")
    /\ rresult[2] = Returned("Success", "Request sent successfully")

\* C7 as stated: a matching confirmation dispatched after the data request was
\* sent and before request() waits for it is not lost: a call that went on to
\* wait ends with that confirmation's status.
C7_EarlyConfirmNotLost ==
    \A r \in Calls :
        (rmissed[r] # NoFrame /\ Waits(r) # {} /\ rpc[r] = "end") =>
            rresult[r] = ConfirmResult(rmissed[r].Status)

----------------------------------------------------------------------------
\* Properties of restore_network (SpecRestore)

\* the document carries the supported format tag / version 1 (a JSON number
\* equal to 1, as Python compares it)
DocFormatSupported(b) ==
    /\ "metadata" \in DOMAIN b
    /\ "format" \in DOMAIN b.metadata
    /\ b.metadata.format.t = "str"
    /\ b.metadata.format.v = "zigpy/open-coordinator-backup"
DocVersionSupported(b) ==
    /\ "metadata" \in DOMAIN b
    /\ "version" \in DOMAIN b.metadata
    /\ b.metadata.version.t \in {"int", "bool"}
    /\ b.metadata.version.v = 1

RsIdx == 1..Len(rsLog)
IsOsalWrite(e, id) == e.op = "osal_write" /\ e.id = id
DocF == rsArgs.backup.network_key.frame_counter
DocC == rsArgs.counter_increment
DocLinked == {k \in 1..Len(rsArgs.backup.devices) :
                 "link_key" \in DOMAIN rsArgs.backup.devices[k]}

\* C11: for a valid backup document with frame counter F and a
\* counter_increment C > 0, the frame counter written in the network key
\* record is F + C and is greater than F, and the link key of every device
\* that has one is stored with its tx and rx counters advanced by C.
C11_CountersAdvancedByIncrement ==
    DocC > 0 =>
        \A i \in RsIdx :
            /\ IsOsalWrite(rsLog[i], "NWKKEY") =>
                  /\ rsLog[i].value.FrameCounter = DocF + DocC
                  /\ rsLog[i].value.FrameCounter > DocF
            /\ rsLog[i].op = "write_devices" =>
                  LET stored == write_devices(rsLog[i].devices, rsLog[i].seed,
                                              rsLog[i].counter_increment)
                  IN  /\ Len(stored) = Cardinality(DocLinked)
                      /\ \A k \in DocLinked :
                            LET obj == rsArgs.backup.devices[k]
                            IN  \E j \in 1..Len(stored) :
                                  /\ stored[j].ieee = Reverse(obj.ieee_address)
                                  /\ stored[j].tx_counter = obj.link_key.tx_counter + DocC
                                  /\ stored[j].rx_counter = obj.link_key.rx_counter + DocC

\* a restore of a document with frame counter 1000 and one keyed device has,
\* with counter_increment 2500, written frame counter 3500 and the devices
C11_Witness ==
    /\ rsPc # "idle"
    /\ DocF = 1000
    /\ DocC = 2500
    /\ \E i \in RsIdx : /\ IsOsalWrite(rsLog[i], "NWKKEY")
                        /\ rsLog[i].value.FrameCounter = 3500
    /\ \E i \in RsIdx : /\ rsLog[i].op = "write_devices"
                        /\ Len(rsLog[i].devices) = 2
                        /\ write_devices(rsLog[i].devices, rsLog[i].seed,
                                         rsLog[i].counter_increment)[1].tx_counter = 2510

\* C12: a restore that completes has written a network frame counter greater
\* than the one in the backup document, for every accepted counter_increment.
C12_CompletedRestoreAdvancesCounter ==
    (rsPc = "end" /\ rsResult.kind = "returned") =>
        \A i \in RsIdx :
            IsOsalWrite(rsLog[i], "NWKKEY") => rsLog[i].value.FrameCounter > DocF

\* the positions in rsLog of the steps of one kind
At(op0) == {i \in RsIdx : rsLog[i].op = op0}
WriteAt(id) == {i \in RsIdx : IsOsalWrite(rsLog[i], id)}
StoreWrites == {i \in RsIdx : rsLog[i].op \in {"osal_write", "write_tc_frame_counter",
                                                "write_devices"}}
Before(S, T) == \A i \in S, j \in T : i < j
One(S) == Cardinality(S) = 1
Completed == rsPc = "end" /\ rsResult.kind = "returned"

\* C17: in a restore that completes, the steps occur in this order: session
\* started with forced formation, coordinator address written, network
\* identity record read and written back, the optional seed written, the
\* network key records written, the trust-center frame counter written, the
\* device link keys written, radio reset, session closed; no store write
\* follows the final reset and close is the last action.
C17_RestoreStepsOrdered ==
    Completed =>
        LET lastReset == Max(At("reset"))
            seedGiven == tclk_seed(rsArgs.backup, rsArgs.version) # None
        IN  /\ One(At("startup")) /\ \A i \in At("startup") : rsLog[i].force_form
            /\ One(WriteAt("EXTADDR")) /\ One(At("osal_read")) /\ One(WriteAt("NIB"))
            /\ One(WriteAt("NWKKEY")) /\ One(WriteAt("NWK_ACTIVE_KEY_INFO"))
            /\ One(WriteAt("NWK_ALTERN_KEY_INFO"))
            /\ One(At("write_tc_frame_counter")) /\ One(At("write_devices"))
            /\ One(At("close"))
            /\ Cardinality(WriteAt("TCLK_SEED")) = (IF seedGiven THEN 1 ELSE 0)
            /\ Before(At("startup"), WriteAt("EXTADDR"))
            /\ Before(WriteAt("EXTADDR"), At("osal_read"))
            /\ Before(At("osal_read"), WriteAt("NIB"))
            /\ Before(WriteAt("NIB"), WriteAt("TCLK_SEED"))
            /\ Before(WriteAt("NIB"), WriteAt("NWKKEY"))
            /\ Before(WriteAt("TCLK_SEED"), WriteAt("NWKKEY"))
            /\ Before(WriteAt("NWKKEY"), WriteAt("NWK_ACTIVE_KEY_INFO"))
            /\ Before(WriteAt("NWK_ACTIVE_KEY_INFO"), WriteAt("NWK_ALTERN_KEY_INFO"))
            /\ Before(WriteAt("NWK_ALTERN_KEY_INFO"), At("write_tc_frame_counter"))
            /\ Before(At("write_tc_frame_counter"), At("write_devices"))
            /\ Before(At("write_devices"), {lastReset})
            /\ Before(StoreWrites, {lastReset})
            /\ At("close") = {lastReset + 1}
            /\ Len(rsLog) = lastReset + 1

\* a restore that wrote the seed has completed
C17_Witness ==
    /\ Completed
    /\ WriteAt("TCLK_SEED") # {}
    /\ rsLog[Len(rsLog)].op = "close"
    /\ rsLog[Len(rsLog) - 1].op = "reset"

\* C18: the value written as the trust-center frame counter is the frame
\* counter written in the network key record, both being the document's
\* frame counter plus counter_increment, and it is written only after the
\* network key record has been written.
C18_TcCounterFollowsKeyRecord ==
    \A i \in At("write_tc_frame_counter") :
        /\ rsLog[i].value = DocF + DocC
        /\ \E j \in WriteAt("NWKKEY") :
              /\ j < i
              /\ rsLog[j].value.FrameCounter = rsLog[i].value

\* the trust-center frame counter 3500 has been written after the key record
C18_Witness ==
    /\ rsPc # "idle"
    /\ DocF = 1000
    /\ DocC = 2500
    /\ \E i \in At("write_tc_frame_counter") : rsLog[i].value = 3500
    /\ WriteAt("NWKKEY") # {}

\* C20: when a step fails after the session was started, restore ends with
\* that error having issued exactly the steps up to the failed one: no later
\* step, no write undoing an earlier one and no close. The session is closed
\* only in executions in which every step succeeded.
C20_FailureStopsRestore ==
    /\ (rsPc = "end" /\ rsResult.kind = "raised" /\ rsLog # << >>) =>
          /\ rsResult.error \in ApiErrors
          /\ rsLog = <<CreateApp(rsArgs.backup)>>
                        \o SubSeq(RestoreSteps(rsArgs, rsNib), 1, rsStep)
          /\ At("close") = {}
    /\ At("close") # {} =>
          /\ Completed
          /\ rsStep = Len(RestoreSteps(rsArgs, rsNib))
          /\ Len(rsLog) = rsStep + 2

\* the write of the device link keys failed after the key records were written
C20_Witness ==
    /\ rsPc = "end"
    /\ rsResult = Raised("Timeout")
    /\ WriteAt("NWKKEY") # {}
    /\ rsLog[Len(rsLog)].op = "write_devices"
    /\ At("close") = {}

----------------------------------------------------------------------------
\* Properties of on_af_message (SpecMessages)

Handled == 1..Len(handled)
EventsOf(n, kind) == {i \in 1..Len(events) : events[i].msg = n /\ events[i].ev = kind}
AfterJoinEvents(n) == {i \in 1..Len(events) : events[i].msg = n /\ events[i].ev # "handle_join"}
IsAnnounceFrame(m) == m.ClusterId = 19 /\ m.DstEndpoint = 0
SenderFound(n) == \E i \in EventsOf(n, "get_device") : events[i].found

\* C14: for every incoming frame that is a device announce addressed to
\* endpoint 0 the handler raises exactly one join event, carrying the nwk and
\* ieee addresses decoded from the payload and parent address 0, before the
\* sender lookup and any forwarding, and it returns without an error even when
\* the sender has no Device record; for every other frame it raises no join
\* event.
C14_AnnounceRaisesOneJoin ==
    \A n \in Handled :
        LET m == handled[n].msg
            joins == EventsOf(n, "handle_join")
        IN  IF IsAnnounceFrame(m)
            THEN /\ Cardinality(joins) = 1
                 /\ \A i \in joins :
                       /\ events[i].nwk = m.Data[2] + 256 * m.Data[3]
                       /\ events[i].ieee = SubSeq(m.Data, 4, 11)
                       /\ events[i].parent_nwk = 0
                       /\ \A j \in AfterJoinEvents(n) : i < j
                 /\ EventsOf(n, "get_device") # {}
                 /\ handled[n].outcome = "returned"
            ELSE joins = {}

\* the announce of ieee 00:11:22:33:44:55:66:77 with nwk 0xBEEF was handled
\* while the sender had no Device record
C14_Witness ==
    \E n \in Handled :
        /\ IsAnnounceFrame(handled[n].msg)
        /\ handled[n].msg.SrcAddr = 48879
        /\ ~SenderFound(n)
        /\ handled[n].outcome = "returned"
        /\ \E i \in EventsOf(n, "handle_join") :
              /\ events[i].nwk = 48879
              /\ events[i].ieee = <<119, 102, 85, 68, 51, 34, 17, 0>>

\* C15: for a frame whose source address resolves to no Device the handler
\* forwards nothing, records no radio-quality metadata and returns without an
\* error; for a frame whose source resolves to a Device it records the
\* radio-quality metadata on that Device and then forwards the payload to the
\* message consumer exactly once, attributed to that Device.
C15_UnknownDroppedKnownForwarded ==
    \A n \in Handled :
        LET m == handled[n].msg
            recorded == EventsOf(n, "radio_details")
            forwarded == EventsOf(n, "handle_message")
        IN  /\ Cardinality(EventsOf(n, "get_device")) = 1
            /\ \A i \in EventsOf(n, "get_device") : events[i].nwk = m.SrcAddr
            /\ handled[n].outcome = "returned"
            /\ IF SenderFound(n)
               THEN /\ Cardinality(recorded) = 1
                    /\ Cardinality(forwarded) = 1
                    /\ \A i \in recorded, j \in forwarded :
                          /\ i < j
                          /\ events[i].nwk = m.SrcAddr
                          /\ events[i].lqi = <<m.LQI>>
                          /\ events[j].sender = m.SrcAddr
                          /\ events[j].message = m.Data
                          /\ events[j].cluster = m.ClusterId
                    /\ n = Len(handled) =>
                          /\ m.SrcAddr \in DOMAIN deviceTable
                          /\ deviceTable[m.SrcAddr].lqi = <<m.LQI>>
               ELSE /\ recorded = {}
                    /\ forwarded = {}

\* one frame from an unknown sender was dropped and a later one from a known
\* sender was forwarded
C15_Witness ==
    /\ Len(handled) = 2
    /\ ~SenderFound(1)
    /\ EventsOf(1, "handle_message") = {}
    /\ SenderFound(2)
    /\ ~IsAnnounceFrame(handled[2].msg)
    /\ EventsOf(2, "handle_message") # {}

----------------------------------------------------------------------------
\* Properties of the frame registry (SpecRegistry)

\* the schemas of a command list, and whether two of them share a header
SchemasOf(l) ==
    {x[1] : x \in {s \in UNION {{l[i].Req, l[i].Rsp, l[i].Callback} : i \in 1..Len(l)} :
                      s # << >>}}
Collides(l) == \E a, b \in SchemasOf(l) : a # b /\ a.header = b.header

\* C16: a command list in which two schemas carry the same header is never
\* built into a registry: the registry is not left holding one of the two
\* schemas with the other overwritten.
C16_CollisionNeverRegistered ==
    (regPc = "done" /\ Collides(ALL_COMMANDS)) =>
        ~\E a, b \in SchemasOf(ALL_COMMANDS) :
            /\ a # b
            /\ a.header = b.header
            /\ a.header \in DOMAIN COMMANDS_BY_ID
            /\ COMMANDS_BY_ID[a.header] = a

----------------------------------------------------------------------------
\* The state after construction: nothing has been called, nothing is in flight
Init ==
    /\ op = "none"
    /\ fn = "none"
    /\ step = 0
    /\ phase = "idle"
    /\ args = NoArgs
    /\ rsp = "none"
    /\ outcome = "none"
    /\ log = <<>>
    /\ nInd = 0
    /\ indSeen = {}
    /\ rpc = [r \in Calls |-> "idle"]
    /\ rargs = [r \in Calls |-> NoCall]
    /\ rrsp = [r \in Calls |-> NoFrame]
    /\ rhist = [r \in Calls |-> <<>>]
    /\ rresult = [r \in Calls |-> NoResult]
    /\ rmissed = [r \in Calls |-> NoFrame]
    /\ nConf = 0
    /\ rsPc = "idle"
    /\ rsStep = 0
    /\ rsArgs = NoRestore
    /\ rsNib = NoNib
    /\ rsLog = <<>>
    /\ rsResult = NoResult
    /\ unsupported = [op |-> "none", result |-> NoResult]
    /\ deviceTable = NoDevices
    /\ events = <<>>
    /\ handled = <<>>
    /\ ALL_COMMANDS = <<>>
    /\ COMMANDS_BY_ID = NoCommands
    /\ regPos = 0
    /\ regPc = "idle"

\* startup and form_network against the radio
SpecLifecycle == Init /\ [][LifeNext]_vars

\* concurrent request() calls against the radio
SpecRequest == Init /\ [][ReqNext]_vars

\* restore_network against the radio
SpecRestore == Init /\ [][RestNext]_vars

\* application frames delivered to on_af_message
SpecMessages == Init /\ [][MsgNext]_vars

\* the frame registry built from a command list
SpecRegistry == Init /\ [][RegNext]_vars

====
